---- MODULE Spec2Model ----
(***************************************************************************)
(* Deploy-record store of RichDaddyCashMany/deploylist.                    *)
(*                                                                         *)
(* Four implementations of the persistence layer are modelled:             *)
(*   impl = "db"      src/lib/db.ts            (remote store only)         *)
(*   impl = "hybrid"  src/unnamed/part_001:30-292 (remote store + file,    *)
(*                    REDIS_ONLY switch, IS_VERCEL repository fallback)    *)
(*   impl = "filefirst" src/unnamed/part_001:295-435 (remote store         *)
(*                    written, file written and read)                      *)
(*   impl = "memory"  src/unnamed/part_002     (in-process list when no    *)
(*                    remote store is configured)                          *)
(* together with the HTTP handlers of /api/deploy, /api/projects and       *)
(* /api/clean that call them.                                              *)
(*                                                                         *)
(* `calls' holds the calls of addDeployRecord and clearAllData of          *)
(* src/lib/db.ts that are between two remote writes, and `page' the        *)
(* polling page src/app/youpik/page.tsx:1-230 (filter, polls in flight,    *)
(* list shown, seen-id cache, notifications sent).                         *)
(*                                                                         *)
(* Clock: Date.now() is counted in days, so THIRTY_DAYS_MS is 30 ticks and *)
(* the "- 1" of the index pruning is one tick.                             *)
(***************************************************************************)
EXTENDS Integers, Sequences, FiniteSets, TLC

VARIABLES
  impl,        \* which implementation of lib/db is deployed
  redis,       \* TRUE iff the remote client is configured (redis != null)
  REDIS_ONLY,  \* part_001:47
  IS_VERCEL,   \* part_001:40
  writable,    \* TRUE iff the directory of DATA_FILE can be written
  now,         \* Date.now()
  ticks,       \* number of clock advances so far
  rdb,         \* remote store: record blobs, time index, legacy list, project set
  fs,          \* file system: path -> file content or Absent
  memory,      \* part_002: memoryList and memoryProjects
  nextId,      \* number of randomUUID() calls so far
  created,     \* history: records returned by successful addDeployRecord calls
  sinceClear,  \* history: those of them created since the last clearAllData
  resp,        \* response of the last request
  page,        \* the polling page of one browser (src/app/youpik/page.tsx)
  calls        \* addDeployRecord and clearAllData calls between their awaits

vars == <<impl, redis, REDIS_ONLY, IS_VERCEL, writable, now, ticks, rdb, fs, memory,
          nextId, created, sinceClear, resp, page, calls>>

----------------------------------------------------------------------------
(* Bounds of the model *)

MaxCreates == 2
MaxTicks == 2
MaxMissing == 1
Now0 == 20000

(* Program constants *)

MAX_ITEMS == 200
THIRTY_DAYS_MS == 30

(* First day of year 10000: from there on toISOString() writes the expanded
   "+YYYYYY-..." form.  First day of year 0000: before it the form is
   "-YYYYYY-...". *)
Y10K == 2932897
Y0 == 0 - 719528

----------------------------------------------------------------------------
(* Values *)

NoValue == "undefined"

Required == <<"title", "projectName", "operator", "environment", "branch",
              "commit", "status">>

\* deployedAt strings.  k = "absent": undefined; "blank": ""; "spaces": "  ";
\* "garbage": text that Date cannot parse; "raw": a parseable date string of
\* instant t; "iso": the output of toISOString() for instant t.
AbsentAt == [k |-> "absent", sign |-> "", t |-> 0]
BlankAt == [k |-> "blank", sign |-> "", t |-> 0]
SpacesAt == [k |-> "spaces", sign |-> "", t |-> 0]
GarbageAt == [k |-> "garbage", sign |-> "", t |-> 0]
RawDate(t) == [k |-> "raw", sign |-> "", t |-> t]

\* Date.prototype.toISOString of a valid instant
toISOString(t) ==
  [k |-> "iso",
   sign |-> IF t >= Y10K THEN "+" ELSE IF t < Y0 THEN "-" ELSE "",
   t |-> t]

\* JS truthiness of a string value
Truthy(s) == s.k \notin {"absent", "blank"}
TruthyStr(s) == s \notin {NoValue, ""}

\* new Date(s).getTime(); NaN is modelled by IsNaNDate(s)
IsNaNDate(s) == s.k \notin {"raw", "iso"}
getTime(s) == s.t

\* the rank of the first character of an ISO string in code-unit order:
\* "+" (0x2B) < "-" (0x2D) < "0".."9"
SignRank(sg) == IF sg = "+" THEN 0 ELSE IF sg = "-" THEN 1 ELSE 2

\* a.deployedAt < b.deployedAt, the JS comparison of two ISO strings
StringLess(a, b) ==
  IF SignRank(a.sign) # SignRank(b.sign) THEN SignRank(a.sign) < SignRank(b.sign)
  ELSE IF a.sign = "-" THEN a.t > b.t
  ELSE a.t < b.t

Min2(a, b) == IF a < b THEN a ELSE b
Max2(a, b) == IF a > b THEN a ELSE b

Range(s) == {s[i] : i \in 1..Len(s)}

----------------------------------------------------------------------------
(* Records and their stored (JSON) form *)

\* the id drawn by the n-th randomUUID() call; a string is a sequence here
randomUUID(n) == <<n>>

\* CreateDeployPayload -> DeployRecord: { id, ...payload, deployedAt }
MakeRecord(id, payload, at) ==
  [id |-> id, title |-> payload.title, projectName |-> payload.projectName,
   operator |-> payload.operator, environment |-> payload.environment,
   branch |-> payload.branch, commit |-> payload.commit, note |-> payload.note,
   deployedAt |-> at, status |-> payload.status]

\* a stored value: the JSON text of a record, a text that is no JSON, or null
stringify(r) == [k |-> "json", r |-> r]
NullValue == [k |-> "null"]

\* coerceRecord wrapped in a sequence: <<r>> for a record, <<>> for null
\* variant: any JSON value is taken as a record
mutCoerceRecord(raw) == IF raw.k = "json" THEN <<raw.r>> ELSE <<>>

coerceRecord(raw) ==
  IF raw.k # "json" THEN <<>>
  ELSE IF raw.r.id # <<>> /\ Truthy(raw.r.deployedAt) THEN <<raw.r>>
  ELSE <<>>

\* hybrid read path: s ? JSON.parse(s) : null, no field check
parseOrNull(raw) == IF raw.k = "json" THEN <<raw.r>> ELSE <<>>

RECURSIVE coerceAll(_)
\* values.map((v) => coerceRecord(v)).filter(Boolean)
coerceAll(s) == IF s = <<>> THEN <<>> ELSE coerceRecord(Head(s)) \o coerceAll(Tail(s))

RECURSIVE parseAll(_)
\* values.map((s) => s ? JSON.parse(s) : null).filter(Boolean)
parseAll(s) == IF s = <<>> THEN <<>> ELSE parseOrNull(Head(s)) \o parseAll(Tail(s))

\* variant of resolveDeployedAt: the substituted time is one tick old
mutResolveDeployedAt(input) ==
  IF ~Truthy(input) \/ input.k = "spaces" THEN toISOString(now - 1)
  ELSE IF IsNaNDate(input) THEN toISOString(now - 1)
  ELSE toISOString(getTime(input))

\* input?.trim() empty or unparsable: the current time; else the instant given
resolveDeployedAt(input) ==
  IF ~Truthy(input) \/ input.k = "spaces" THEN toISOString(now)
  ELSE IF IsNaNDate(input) THEN toISOString(now)
  ELSE toISOString(getTime(input))

----------------------------------------------------------------------------
(* The remote store.  rdb.kv: id -> [val, exp] (the deploy_record:<id> keys,
   exp the instant the key expires); rdb.z: id -> score (deploy_records_z);
   rdb.list: deploy_records; rdb.projects: deploy_projects. *)

EmptyDb == [kv |-> <<>>, z |-> <<>>, list |-> <<>>, projects |-> {}]

\* redis.set(key, value, { ex: 30 days })
redisSet(db, id, val) ==
  [db EXCEPT !.kv = (id :> [val |-> val, exp |-> now + THIRTY_DAYS_MS]) @@ db.kv]

\* redis.zadd(key, { score, member })
redisZadd(db, score, member) == [db EXCEPT !.z = (member :> score) @@ db.z]

\* redis.zremrangebyscore(key, lo, hi)
redisZremrangebyscore(db, lo, hi) ==
  [db EXCEPT !.z = [m \in {x \in DOMAIN db.z : ~(lo <= db.z[x] /\ db.z[x] <= hi)}
                      |-> db.z[m]]]

\* redis.lpush(key, value)
redisLpush(db, val) == [db EXCEPT !.list = <<val>> \o db.list]

\* redis.ltrim(key, 0, stop)
redisLtrim(db, stop) ==
  [db EXCEPT !.list = SubSeq(db.list, 1, Min2(Len(db.list), stop + 1))]

\* variant of redisSadd: one fixed name is added whatever the member
mutRedisSadd(db, member) == [db EXCEPT !.projects = db.projects \cup {"svc-a"}]

\* redis.sadd(key, member)
redisSadd(db, member) == [db EXCEPT !.projects = db.projects \cup {member}]

\* redis.mget of one record key: null once the key is unset or expired
redisGet(db, id) ==
  IF id \in DOMAIN db.kv /\ now < db.kv[id].exp THEN db.kv[id].val ELSE NullValue

\* member order of the sorted set: by score, then by member
ZBefore(db, a, b) ==
  \/ db.z[a] > db.z[b]
  \/ db.z[a] = db.z[b] /\ a[1] > b[1]

RECURSIVE ZRev(_, _)
ZRev(db, S) ==
  IF S = {} THEN <<>>
  ELSE LET m == CHOOSE a \in S : \A b \in S \ {a} : ZBefore(db, a, b)
       IN <<m>> \o ZRev(db, S \ {m})

\* redis.zrange(key, 0, stop, { rev: true })
redisZrangeRev(db, stop) ==
  LET all == ZRev(db, DOMAIN db.z)
  IN SubSeq(all, 1, Min2(Len(all), stop + 1))

\* redis.lrange(key, 0, stop)
redisLrange(db, stop) == SubSeq(db.list, 1, Min2(Len(db.list), stop + 1))

\* the writes of addDeployRecord, in program order (db.ts:52-60)
WriteSteps == 6
\* variant: the index entry is written before the blob
mutWriteStep(db, k, record) ==
  LET score == getTime(record.deployedAt)
  IN CASE k = 1 -> redisZadd(db, score, record.id)
       [] k = 2 -> redisSet(db, record.id, stringify(record))
       [] k = 3 -> redisZremrangebyscore(db, 0, score - THIRTY_DAYS_MS - 1)
       [] k = 4 -> redisLpush(db, stringify(record))
       [] k = 5 -> redisLtrim(db, MAX_ITEMS - 1)
       [] k = 6 -> redisSadd(db, record.projectName)

WriteStep(db, k, record) ==
  LET score == getTime(record.deployedAt)
  IN CASE k = 1 -> redisSet(db, record.id, stringify(record))
       [] k = 2 -> redisZadd(db, score, record.id)
       [] k = 3 -> redisZremrangebyscore(db, 0, score - THIRTY_DAYS_MS - 1)
       [] k = 4 -> redisLpush(db, stringify(record))
       [] k = 5 -> redisLtrim(db, MAX_ITEMS - 1)
       [] k = 6 -> redisSadd(db, record.projectName)

RECURSIVE WriteUpTo(_, _, _)
\* the store after the first n writes of addDeployRecord
WriteUpTo(db, n, record) ==
  IF n = 0 THEN db ELSE WriteStep(WriteUpTo(db, n - 1, record), n, record)

----------------------------------------------------------------------------
(* Array helpers of the read path *)

RECURSIVE Filter(_, _)
\* Array.prototype.filter, the test given as the set of values that pass
Filter(s, S) ==
  IF s = <<>> THEN <<>>
  ELSE (IF Head(s) \in S THEN <<Head(s)>> ELSE <<>>) \o Filter(Tail(s), S)

\* variant of slice: one element short
mutSlice(s, limit) == SubSeq(s, 1, Min2(Len(s), Max2(limit - 1, 0)))

\* list.slice(0, limit)
slice(s, limit) == SubSeq(s, 1, Min2(Len(s), Max2(limit, 0)))

\* variant of compareFn: the signs exchanged
mutCompareFn(a, b) == IF StringLess(a.deployedAt, b.deployedAt) THEN 0 - 1 ELSE 1

\* the comparator (a, b) => (a.deployedAt < b.deployedAt ? 1 : -1)
compareFn(a, b) == IF StringLess(a.deployedAt, b.deployedAt) THEN 1 ELSE 0 - 1

RECURSIVE InsertSorted(_, _)
\* binary insertion of x: before the first element e with compareFn(x, e) < 0
InsertSorted(x, s) ==
  IF s = <<>> THEN <<x>>
  ELSE IF compareFn(x, Head(s)) < 0 THEN <<x>> \o s
  ELSE <<Head(s)>> \o InsertSorted(x, Tail(s))

RECURSIVE SortInto(_, _)
SortInto(acc, s) ==
  IF s = <<>> THEN acc ELSE SortInto(InsertSorted(Head(s), acc), Tail(s))

\* list.sort(compareFn) for the short arrays of the model (insertion sort)
sort(s) == SortInto(<<>>, s)

\* byId.set(r.id, r) on a Map kept as the sequence of its values in
\* insertion order
\* variant: the first value stored under an id is kept
mutMapSet(m, r) ==
  IF \E i \in 1..Len(m) : m[i].id = r.id THEN m ELSE Append(m, r)

MapSet(m, r) ==
  IF \E i \in 1..Len(m) : m[i].id = r.id
  THEN [i \in 1..Len(m) |-> IF m[i].id = r.id THEN r ELSE m[i]]
  ELSE Append(m, r)

RECURSIVE MapSetAll(_, _)
MapSetAll(m, s) == IF s = <<>> THEN m ELSE MapSetAll(MapSet(m, Head(s)), Tail(s))

\* variant of InWindow: a window half as long
mutInWindowShort(r, min) ==
  ~IsNaNDate(r.deployedAt) /\ getTime(r.deployedAt) >= min + (THIRTY_DAYS_MS \div 2)

\* variant of InWindow: a window twice as long
mutInWindow(r, min) ==
  ~IsNaNDate(r.deployedAt) /\ getTime(r.deployedAt) >= min - THIRTY_DAYS_MS

\* new Date(r.deployedAt).getTime() >= min, false for NaN
InWindow(r, min) == ~IsNaNDate(r.deployedAt) /\ getTime(r.deployedAt) >= min

\* variant of filterProjects: the filter is not applied
mutFilterProjects(list, projectNames) == list

\* normalized ? list.filter(x => normalized.has(x.projectName)) : list
filterProjects(list, projectNames) ==
  IF Len(projectNames) > 0
  THEN Filter(list, {x \in Range(list) : x.projectName \in Range(projectNames)})
  ELSE list

\* the names of the model in the order of Array.prototype.sort()
NameOrder == <<"svc-a", "svc-b">>

\* [...new Set(names)].sort()
sortNames(S) == Filter(NameOrder, S)

----------------------------------------------------------------------------
(* src/lib/db.ts: remote store only *)

\* getLatestDeployRecords, with the remote calls answering (ok) or throwing
dbGetLatestDeployRecords(limit, projectNames, ok) ==
  IF ~ok THEN <<>>
  ELSE
    LET min == now - THIRTY_DAYS_MS
        ids == redisZrangeRev(rdb, MAX_ITEMS - 1)
        zsetValues == [i \in 1..Len(ids) |-> redisGet(rdb, ids[i])]
        fromZset == coerceAll(zsetValues)
        listItems == redisLrange(rdb, MAX_ITEMS - 1)
        fromList == coerceAll(listItems)
        byId == MapSetAll(MapSetAll(<<>>, fromList), fromZset)
        list == filterProjects(Filter(byId, {r \in Range(byId) : InWindow(r, min)}), projectNames)
    IN slice(sort(list), limit)

\* getAllProjects
dbGetAllProjects(ok) ==
  IF ~ok THEN <<>>
  ELSE IF rdb.projects # {} THEN sortNames(rdb.projects)
  ELSE LET parsed == coerceAll(redisLrange(rdb, MAX_ITEMS - 1))
       IN sortNames({parsed[i].projectName : i \in 1..Len(parsed)})

\* the keys redis.keys("*") lists: expired record keys and empty
\* collections do not exist
redisKeys(db) ==
  Cardinality({id \in DOMAIN db.kv : now < db.kv[id].exp})
  + (IF DOMAIN db.z # {} THEN 1 ELSE 0)
  + (IF db.list # <<>> THEN 1 ELSE 0)
  + (IF db.projects # {} THEN 1 ELSE 0)

----------------------------------------------------------------------------
(* src/unnamed/part_001:30-292: remote store plus file *)

NoFile == [exists |-> FALSE, records |-> <<>>, projects |-> <<>>]
File(records, projects) == [exists |-> TRUE, records |-> records, projects |-> projects]

DATA_FILE == IF IS_VERCEL THEN "tmp" ELSE "cwd"
REPO_DATA_FILE == "cwd"

\* parseState: a record without a parsable deployedAt gets the current time
parseState(f) ==
  [records |-> [i \in 1..Len(f.records) |->
                  IF ~Truthy(f.records[i].deployedAt) \/ IsNaNDate(f.records[i].deployedAt)
                  THEN [f.records[i] EXCEPT !.deployedAt = toISOString(now)]
                  ELSE f.records[i]],
   projects |-> f.projects]

EmptyState == [records |-> <<>>, projects |-> <<>>]

loadState ==
  IF REDIS_ONLY THEN EmptyState
  ELSE IF fs[DATA_FILE].exists
  THEN LET state == parseState(fs[DATA_FILE])
       IN IF IS_VERCEL /\ Len(state.records) = 0 /\ fs[REPO_DATA_FILE].exists
          THEN parseState(fs[REPO_DATA_FILE])
          ELSE state
  ELSE IF fs[REPO_DATA_FILE].exists THEN parseState(fs[REPO_DATA_FILE])
  ELSE EmptyState

\* fs.writeFile(DATA_FILE, ...): throws in a read-only directory
writeFile(state) ==
  IF writable THEN [fs EXCEPT ![DATA_FILE] = File(state.records, state.projects)] ELSE fs

\* the file part of addDeployRecord (part_001:146-156)
fileAfterAdd(record) ==
  IF REDIS_ONLY THEN fs
  ELSE LET state == loadState
           recs == <<record>> \o state.records
           cut == SubSeq(recs, 1, Min2(Len(recs), MAX_ITEMS))
           projs == IF record.projectName \in Range(state.projects)
                    THEN state.projects
                    ELSE Append(state.projects, record.projectName)
       IN writeFile([records |-> cut, projects |-> projs])

\* the file tier of getLatestDeployRecords (part_001:213-218)
fileGetLatest(limit, projectNames) ==
  LET min == now - THIRTY_DAYS_MS
  IN slice(sort(filterProjects(Filter(loadState.records, {r \in Range(loadState.records) : InWindow(r, min)}), projectNames)), limit)

\* variant: the legacy list is read even when the index yields records
mutHybridRemoteList(projectNames) ==
  LET min == now - THIRTY_DAYS_MS
      ids == redisZrangeRev(rdb, MAX_ITEMS - 1)
      values == [i \in 1..Len(ids) |-> redisGet(rdb, ids[i])]
      fromIndex == parseAll(values)
      fromList == parseAll(redisLrange(rdb, MAX_ITEMS - 1))
      fromRedis == MapSetAll(MapSetAll(<<>>, fromList), fromIndex)
  IN sort(filterProjects(Filter(fromRedis, {r \in Range(fromRedis) : InWindow(r, min)}), projectNames))

\* the remote tier (part_001:166-202): the list before slice(0, limit)
hybridRemoteList(projectNames) ==
  LET min == now - THIRTY_DAYS_MS
      ids == redisZrangeRev(rdb, MAX_ITEMS - 1)
      values == [i \in 1..Len(ids) |-> redisGet(rdb, ids[i])]
      fromIndex == parseAll(values)
      fromRedis == IF Len(fromIndex) = 0
                   THEN parseAll(redisLrange(rdb, MAX_ITEMS - 1))
                   ELSE fromIndex
  IN sort(filterProjects(Filter(fromRedis, {r \in Range(fromRedis) : InWindow(r, min)}), projectNames))

\* variant: a failed remote read ends the call with nothing
mutHybridGetLatestDeployRecords(limit, projectNames, ok) ==
  LET list == IF redis /\ ok THEN hybridRemoteList(projectNames) ELSE <<>>
  IN IF Len(list) > 0 THEN slice(list, limit)
     ELSE IF REDIS_ONLY \/ (redis /\ ~ok) THEN <<>>
     ELSE fileGetLatest(limit, projectNames)

hybridGetLatestDeployRecords(limit, projectNames, ok) ==
  LET list == IF redis /\ ok THEN hybridRemoteList(projectNames) ELSE <<>>
  IN IF Len(list) > 0 THEN slice(list, limit)
     ELSE IF REDIS_ONLY THEN <<>>
     ELSE fileGetLatest(limit, projectNames)

hybridGetAllProjects(ok) ==
  LET inferred ==
        IF ~(redis /\ ok) THEN <<>>
        ELSE IF rdb.projects # {} THEN sortNames(rdb.projects)
        ELSE LET parsed == parseAll(redisLrange(rdb, MAX_ITEMS - 1))
             IN sortNames({parsed[i].projectName : i \in 1..Len(parsed)})
      state == loadState
  IN IF Len(inferred) > 0 THEN inferred
     ELSE IF REDIS_ONLY THEN <<>>
     ELSE IF Len(state.projects) > 0 THEN sortNames(Range(state.projects))
     ELSE sortNames({state.records[i].projectName : i \in 1..Len(state.records)})

----------------------------------------------------------------------------
(* src/unnamed/part_001:295-435: remote store written, file written and read.
   DATA_FILE is .data/deploy.json of the working directory; with IS_VERCEL
   and REDIS_ONLY false loadState above reads exactly that file. *)

\* getLatestDeployRecords: the file is the only source
v2GetLatestDeployRecords(limit, projectNames) == fileGetLatest(limit, projectNames)

\* getAllProjects: [...state.projects].sort()
v2GetAllProjects == sortNames(Range(loadState.projects))

----------------------------------------------------------------------------
(* src/unnamed/part_002: memoryList and memoryProjects when no remote store
   is configured *)

EmptyMemory == [list |-> <<>>, projects |-> {}]

\* { id, deployedAt: payload.deployedAt ?? now, ...payload }: the payload's
\* own deployedAt key, undefined included, is spread over the default
memoryRecord(id, payload) ==
  LET default == IF payload.deployedAt.k = "absent" THEN toISOString(now)
                 ELSE payload.deployedAt
      r == MakeRecord(id, payload, default)
  IN [r EXCEPT !.deployedAt = payload.deployedAt]

\* memoryList.unshift(record), cut at MAX_ITEMS; memoryProjects.add
memoryAfterAdd(record) ==
  LET recs == <<record>> \o memory.list
  IN [list |-> SubSeq(recs, 1, Min2(Len(recs), MAX_ITEMS)),
      projects |-> memory.projects \cup {record.projectName}]

\* getLatestDeployRecords without remote store (part_002:78-90)
memoryGetLatestDeployRecords(limit, projectNames) ==
  LET min == now - THIRTY_DAYS_MS
      list == Filter(memory.list, {r \in Range(memory.list) : InWindow(r, min)})
  IN slice(sort(filterProjects(list, projectNames)), limit)

\* getAllProjects without remote store (part_002:98)
memoryGetAllProjects == sortNames(memory.projects)

----------------------------------------------------------------------------
(* Requests *)

Undefined == [k |-> "absent", n |-> 0]
Num(n) == [k |-> "num", n |-> n]
\* a limit parameter for which Number() gives NaN
NotANumber == [k |-> "nan", n |-> 0]

\* Number(searchParams.get("limit")) || 20, clamped to [1, 50]
effectiveLimit(param) ==
  LET n == IF param.k = "num" /\ param.n # 0 THEN param.n ELSE 20
  IN Max2(1, Min2(50, n))

\* a piece of the comma separated "projects" parameter: the name s, and
\* whether blanks surround it
Piece(s, pad) == [s |-> s, pad |-> pad]
trim(piece) == piece.s
NoCsv == [k |-> "absent", pieces |-> <<>>]
Csv(pieces) == [k |-> "text", pieces |-> pieces]

\* multi.length > 0 ? multi : csv ? csv.split(",").map(trim).filter(Boolean)
\*                                : undefined      (undefined is <<>> here)
effectiveProjects(multi, csv) ==
  IF Len(multi) > 0 THEN multi
  ELSE IF csv.k = "text"
  THEN LET names == [i \in 1..Len(csv.pieces) |-> trim(csv.pieces[i])]
       IN Filter(names, Range(names) \ {""})
  ELSE <<>>

\* the query strings sent: ?limit, ?projectName (repeatable), ?projects
Query(l, multi, csv) == [limit |-> l, multi |-> multi, csv |-> csv]
Queries ==
  {Query(Undefined, <<>>, NoCsv), Query(Num(1), <<>>, NoCsv),
   Query(Undefined, <<"svc-b">>, NoCsv),
   Query(Num(1), <<>>, Csv(<<Piece("svc-b", TRUE), Piece("", FALSE)>>))}

\* a deployedAt ahead of the clock, inside the year range of the plain form
FutureAt == RawDate(Now0 + 40)

FullBody(p, at) ==
  [title |-> "deploy", projectName |-> p, operator |-> "alice",
   environment |-> "prod", branch |-> "main", commit |-> "abc123",
   status |-> "success", note |-> NoValue, deployedAt |-> at]

\* a body with the fields of M carrying v (undefined or "")
Without(b, M, v) == [f \in DOMAIN b |-> IF f \in M THEN v ELSE b[f]]

RequiredSet == Range(Required)

\* complete bodies: one without deployedAt, one dated ahead of the clock,
\* one dated in year 10000, and ones whose deployedAt is blank or no date
FullBodies ==
  {FullBody("svc-a", AbsentAt), FullBody("svc-b", FutureAt),
   FullBody("svc-a", RawDate(Y10K))}
  \cup {FullBody("svc-a", at) : at \in {BlankAt, SpacesAt, GarbageAt}}

\* bodies with required fields left out (undefined), or one left empty
PartialBodies ==
  {Without(FullBody("svc-a", AbsentAt), M, NoValue) :
     M \in {X \in SUBSET RequiredSet : Cardinality(X) \in 1..MaxMissing}}
  \cup {Without(FullBody("svc-a", AbsentAt), {"status"}, "")}

Bodies == FullBodies \cup PartialBodies

\* variant of missing: the last required key is not tested
mutMissing(body) == {i \in 1..(Len(Required) - 1) : ~TruthyStr(body[Required[i]])}

\* the required keys that fail the test !body[key]
missing(body) == {i \in 1..Len(Required) : ~TruthyStr(body[Required[i]])}

\* the first of them in the order of the loop, 0 when there is none
firstMissing(body) ==
  IF missing(body) = {} THEN 0
  ELSE CHOOSE i \in missing(body) : \A j \in missing(body) : i <= j

\* the payload POST builds from a body that passed the loop and whose
\* deployedAt is absent or parsable
payloadOf(body) ==
  [body EXCEPT !.deployedAt =
     IF Truthy(body.deployedAt) THEN toISOString(getTime(body.deployedAt))
     ELSE AbsentAt]

\* the body of a request that has none
NoBody == Without(FullBody("svc-a", AbsentAt), RequiredSet, NoValue)

\* A response, with the request it answers: body (POST), param (GET, the
\* limit parameter), limit and projects
\* (GET, as passed to getLatestDeployRecords), at (Date.now() of the request)
\* and ok (the remote calls of the request answered).
Response(op, status) ==
  [op |-> op, status |-> status, error |-> "", field |-> "", data |-> <<>>,
   names |-> <<>>, body |-> NoBody, param |-> Undefined, limit |-> 0,
   projects |-> <<>>, at |-> now,
   ok |-> TRUE, cleared |-> 0, mode |-> ""]

\* how many of the writes of addDeployRecord complete before the remote
\* store fails; WriteSteps when it does not fail
Completed == {WriteSteps}

\* the outcomes of the remote writes and of the file write that matter to a
\* request: a body that is rejected reaches neither
DoneFor(body) ==
  IF redis /\ firstMissing(body) = 0 /\ ~(Truthy(body.deployedAt) /\ IsNaNDate(body.deployedAt))
  THEN Completed ELSE {WriteSteps}
RemoteOutcomes == IF redis THEN BOOLEAN ELSE {TRUE}

----------------------------------------------------------------------------
(* Calls of src/lib/db.ts in progress.  Every await of addDeployRecord and
   of clearAllData is a point where another request may run.  calls.add is
   the record being written with the number of its remote writes done;
   calls.clear is the key list redis.keys("*") returned to a clearAllData
   that has not yet called redis.del. *)

NoRecord == [id |-> <<>>]
NoCalls == [add |-> [record |-> NoRecord, body |-> NoBody, pc |-> 0],
            clear |-> [pc |-> 0, keys |-> {}]]

\* key names of the remote store
RecordKey(id) == <<"deploy_record:", id>>
DEPLOY_ZSET_KEY == <<"deploy_records_z">>
DEPLOY_KEY == <<"deploy_records">>
PROJECT_SET_KEY == <<"deploy_projects">>

\* redis.keys("*"): expired record keys and empty collections do not exist
redisKeysOf(db) ==
  {RecordKey(id) : id \in {i \in DOMAIN db.kv : now < db.kv[i].exp}}
  \cup (IF DOMAIN db.z # {} THEN {DEPLOY_ZSET_KEY} ELSE {})
  \cup (IF db.list # <<>> THEN {DEPLOY_KEY} ELSE {})
  \cup (IF db.projects # {} THEN {PROJECT_SET_KEY} ELSE {})

\* redis.del(...keys)
redisDel(db, keys) ==
  LET gone == {id \in DOMAIN db.kv : RecordKey(id) \in keys}
  IN [kv |-> [id \in DOMAIN db.kv \ gone |-> db.kv[id]],
      z |-> IF DEPLOY_ZSET_KEY \in keys THEN <<>> ELSE db.z,
      list |-> IF DEPLOY_KEY \in keys THEN <<>> ELSE db.list,
      projects |-> IF PROJECT_SET_KEY \in keys THEN {} ELSE db.projects]

----------------------------------------------------------------------------
(* src/app/youpik/page.tsx:1-230: the polling page of one browser.
   page.localStorage is the id array stored under LS_LAST_NOTIFIED_KEY,
   page.polls the calls of poll() in the order they started, page.notified
   the notifications raised so far; page.listFrom, page.sinceChange and
   page.last are history: the poll that set the list shown, the number of
   polls completed since the last filter change, and what the poll
   completed last found and did. *)

MaxPolls == 3

MAX_SHOW == 20
MAX_SEEN_CACHE == 500

\* ids cached by earlier visits of the page
OldIds(n) == [i \in 1..n |-> randomUUID(1000 + i)]

\* Array.from(new Set(ids)): the first occurrence of each id, in order
unique(ids) ==
  LET first(i) == \A j \in 1..(i - 1) : ids[j] # ids[i]
      kept == SelectSeq([i \in 1..Len(ids) |-> i], first)
  IN [k \in 1..Len(kept) |-> ids[kept[k]]]

\* writeSeenIds: what localStorage holds afterwards
writeSeenIds(ids) == slice(unique(ids), MAX_SEEN_CACHE)

NoPoll == [n |-> 0, nth |-> 0, fresh |-> FALSE, seenEmpty |-> TRUE,
           granted |-> FALSE, notified |-> FALSE]

\* the page before it is opened
ClosedPage ==
  [seg |-> <<>>, suppressNotifyRef |-> FALSE, list |-> <<>>, listFrom |-> 0,
   localStorage |-> <<>>, permission |-> "granted", bark |-> FALSE,
   polls |-> <<>>, notified |-> <<>>, sinceChange |-> 0, last |-> NoPoll]

\* a call of poll(), by the effect (mount, filter change) or by the
\* interval timer: query() closes over the filter of its render
NewPoll(seg, by) ==
  [seg |-> seg, by |-> by, phase |-> "sent", data |-> <<>>, seen |-> <<>>]

\* Notification.permission and NEXT_PUBLIC_BARK_BASE of a browser
Browser(permission, bark) == [permission |-> permission, bark |-> bark]

----------------------------------------------------------------------------
(* Initial states: one per deployment configuration *)

SeedRecord ==
  MakeRecord(randomUUID(0), FullBody("svc-a", AbsentAt), toISOString(Now0 - 1))

\* a .data/deploy.json committed with the repository
RepoData == File(<<SeedRecord>>, <<"svc-a">>)

InitCommon ==
  /\ now = Now0
  /\ ticks = 0
  /\ rdb = EmptyDb
  /\ nextId = 0
  /\ created = {}
  /\ sinceClear = {}
  /\ memory = EmptyMemory
  /\ resp = [Response("none", 0) EXCEPT !.at = Now0]
  /\ page = ClosedPage
  /\ calls = NoCalls

InitDb ==
  /\ impl = "db"
  /\ redis \in BOOLEAN
  /\ REDIS_ONLY = TRUE
  /\ IS_VERCEL = FALSE
  /\ writable = FALSE
  /\ fs = [tmp |-> NoFile, cwd |-> NoFile]
  /\ InitCommon

\* the deployments of the hybrid module: remote only (REDIS_ONLY), remote
\* plus file on Vercel (the repository's .data/deploy.json is deployed with
\* the code, the runtime file lives under /tmp), and file only on a
\* developer's machine
Deployment(r, o, v, w) == [redis |-> r, REDIS_ONLY |-> o, IS_VERCEL |-> v, writable |-> w]
Deployments ==
  {Deployment(TRUE, TRUE, FALSE, FALSE),
   Deployment(TRUE, FALSE, TRUE, TRUE),
   Deployment(FALSE, FALSE, FALSE, TRUE)}

InitHybrid ==
  /\ impl = "hybrid"
  /\ \E d \in Deployments :
       /\ redis = d.redis
       /\ REDIS_ONLY = d.REDIS_ONLY
       /\ IS_VERCEL = d.IS_VERCEL
       /\ writable = d.writable
  /\ fs = [tmp |-> NoFile, cwd |-> IF IS_VERCEL \/ ~writable THEN RepoData ELSE NoFile]
  /\ InitCommon

Init == InitDb \/ InitHybrid

----------------------------------------------------------------------------
(* Actions *)

Config == <<impl, redis, REDIS_ONLY, IS_VERCEL, writable>>

\* POST /api/deploy (page.tsx:606-635) with addDeployRecord (db.ts:39-65,
\* part_001:122-159).  done: the remote writes that complete.
\* the remote writes of one create: part_001:359-387 has no sadd
RemoteWrites == IF impl = "filefirst" THEN WriteSteps - 1 ELSE WriteSteps

POST(body, done) ==
  /\ UNCHANGED <<Config, page, calls, now, ticks>>
  /\ IF firstMissing(body) # 0
     THEN /\ resp' = [Response("POST", 400) EXCEPT
                        !.error = "missing field", !.body = body,
                        !.field = Required[firstMissing(body)]]
          /\ UNCHANGED <<rdb, fs, memory, nextId, created, sinceClear>>
     ELSE IF Truthy(body.deployedAt) /\ IsNaNDate(body.deployedAt)
     THEN \* new Date(body.deployedAt).toISOString() throws RangeError
          /\ resp' = [Response("POST", 400) EXCEPT
                        !.error = "Invalid time value", !.body = body]
          /\ UNCHANGED <<rdb, fs, memory, nextId, created, sinceClear>>
     ELSE IF impl = "db" /\ ~redis
     THEN /\ resp' = [Response("POST", 400) EXCEPT
                        !.error = "not configured", !.body = body]
          /\ UNCHANGED <<rdb, fs, memory, nextId, created, sinceClear>>
     ELSE
       LET payload == payloadOf(body)
           record == IF impl = "memory"
                     THEN memoryRecord(randomUUID(nextId + 1), payload)
                     ELSE MakeRecord(randomUUID(nextId + 1), payload,
                                     resolveDeployedAt(payload.deployedAt))
           n == IF redis THEN Min2(done, RemoteWrites) ELSE RemoteWrites
       IN /\ nextId < MaxCreates
          /\ nextId' = nextId + 1
          /\ rdb' = IF redis THEN WriteUpTo(rdb, n, record) ELSE rdb
          /\ IF n < RemoteWrites
             THEN /\ resp' = [Response("POST", 400) EXCEPT
                                !.error = "remote store failed", !.body = body,
                                !.ok = FALSE]
                  /\ UNCHANGED <<fs, memory, created, sinceClear>>
             ELSE IF impl = "filefirst" /\ ~writable
             THEN \* saveState throws (part_001:384), outside any try
                  /\ resp' = [Response("POST", 400) EXCEPT
                                !.error = "file write failed", !.body = body]
                  /\ UNCHANGED <<fs, memory, created, sinceClear>>
             ELSE /\ fs' = IF impl \in {"hybrid", "filefirst"}
                           THEN fileAfterAdd(record) ELSE fs
                  /\ memory' = IF impl = "memory" THEN memoryAfterAdd(record)
                               ELSE memory
                  /\ created' = created \cup {record}
                  /\ sinceClear' = sinceClear \cup {record}
                  /\ resp' = [Response("POST", 200) EXCEPT
                                !.data = <<record>>, !.body = body]

getLatestDeployRecords(limit, projectNames, ok) ==
  IF impl = "db" THEN dbGetLatestDeployRecords(limit, projectNames, ok)
  ELSE IF impl = "filefirst" THEN v2GetLatestDeployRecords(limit, projectNames)
  ELSE IF impl = "memory" THEN memoryGetLatestDeployRecords(limit, projectNames)
  ELSE hybridGetLatestDeployRecords(limit, projectNames, ok)

getAllProjects(ok) ==
  IF impl = "db" THEN dbGetAllProjects(ok)
  ELSE IF impl = "filefirst" THEN v2GetAllProjects
  ELSE IF impl = "memory" THEN memoryGetAllProjects
  ELSE hybridGetAllProjects(ok)

\* GET /api/deploy (page.tsx:591-604)
GET(q, ok) ==
  /\ UNCHANGED <<Config, page, calls, now, ticks, rdb, fs, memory, nextId, created, sinceClear>>
  /\ LET limit == effectiveLimit(q.limit)
         projects == effectiveProjects(q.multi, q.csv)
     IN IF impl = "db" /\ ~redis
        THEN resp' = [Response("GET", 500) EXCEPT
                        !.error = "not configured", !.param = q.limit,
                        !.limit = limit, !.projects = projects]
        ELSE resp' = [Response("GET", 200) EXCEPT
                        !.param = q.limit, !.limit = limit,
                        !.projects = projects,
                        !.ok = (ok \/ ~redis),
                        !.data = getLatestDeployRecords(limit, projects, ok)]

\* GET /api/projects (src/app/api/projects/route.ts)
GETProjects(ok) ==
  /\ UNCHANGED <<Config, page, calls, now, ticks, rdb, fs, memory, nextId, created, sinceClear>>
  /\ IF impl = "db" /\ ~redis
     THEN resp' = [Response("GETProjects", 500) EXCEPT !.error = "not configured"]
     ELSE resp' = [Response("GETProjects", 200) EXCEPT
                     !.ok = (ok \/ ~redis), !.names = getAllProjects(ok)]

\* POST /api/clean (src/app/api/clean/route.ts) with clearAllData
\* (db.ts:125-142, part_001:265-292, part_001:412-435); part_002 has none
Clean(ok) ==
  /\ impl # "memory"
  /\ UNCHANGED <<Config, page, calls, now, ticks, memory, nextId, created>>
  /\ IF redis /\ ~ok
     THEN /\ resp' = [Response("Clean", 500) EXCEPT
                        !.error = "remote store failed", !.ok = FALSE]
          /\ UNCHANGED <<rdb, fs, sinceClear>>
     ELSE LET removedRedis == IF redis THEN redisKeys(rdb) ELSE 0
              usedFile == (impl = "hybrid" /\ ~REDIS_ONLY) \/ impl = "filefirst"
              state == loadState
              removedFile == IF usedFile
                             THEN Len(state.records) + Len(state.projects)
                             ELSE 0
          IN /\ rdb' = IF redis THEN EmptyDb ELSE rdb
             /\ fs' = IF usedFile THEN writeFile(EmptyState) ELSE fs
             /\ sinceClear' = {}
             /\ resp' = [Response("Clean", 200) EXCEPT
                           !.cleared = removedRedis + removedFile,
                           !.mode = IF redis /\ usedFile THEN "redis|file"
                                    ELSE IF redis THEN "redis" ELSE "file"]

\* the clock advances by a little more than half the retention window
TickSteps == {THIRTY_DAYS_MS \div 2 + 1}

\* time passes
Tick(d) ==
  /\ ticks < MaxTicks
  /\ ticks' = ticks + 1
  /\ now' = now + d
  /\ UNCHANGED <<Config, page, calls, rdb, fs, memory, nextId, created, sinceClear, resp>>

----------------------------------------------------------------------------
(* Steps of the polling page *)

ServerVars == <<Config, calls, now, ticks, rdb, fs, memory, nextId, created, sinceClear, resp>>

\* the interval timer (or the mount effect) calls poll()
PollStart ==
  /\ Len(page.polls) < MaxPolls
  /\ page' = [page EXCEPT !.polls = Append(@, NewPoll(page.seg,
                                      IF Len(page.polls) = 0 THEN "effect"
                                      ELSE "timer"))]
  /\ UNCHANGED ServerVars

\* handleSegChange, and the effect that calls poll() with the new query
handleSegChange(value) ==
  /\ Len(page.polls) \in 1..(MaxPolls - 1)
  /\ value # page.seg
  /\ page' = [page EXCEPT !.suppressNotifyRef = TRUE, !.seg = value,
                          !.sinceChange = 0,
                          !.polls = Append(@, NewPoll(value, "effect"))]
  /\ UNCHANGED ServerVars

\* the server answers GET /api/deploy?limit=20&projectName=... of poll i
PollServe(i, ok) ==
  /\ i \in 1..Len(page.polls)
  /\ page.polls[i].phase = "sent"
  /\ page' = [page EXCEPT !.polls[i].phase = "served",
                          !.polls[i].data =
                             getLatestDeployRecords(
                               effectiveLimit(Num(MAX_SHOW)),
                               effectiveProjects(page.polls[i].seg, NoCsv), ok)]
  /\ UNCHANGED ServerVars

\* data.map((x) => x.id)
idsOf(data) == [k \in 1..Len(data) |-> data[k].id]

\* data.find((x) => newIds.includes(x.id)) || data[0]
firstNew(data, seen) ==
  LET new == {k \in 1..Len(data) : data[k].id \notin Range(seen)}
  IN IF new = {} THEN data[1]
     ELSE data[CHOOSE k \in new : \A m \in new : k <= m]

\* what the poll completed now found and did
PollOutcome(i, data, seen, notified) ==
  [n |-> i, nth |-> page.sinceChange + 1,
   fresh |-> \E k \in 1..Len(data) : data[k].id \notin Range(seen),
   seenEmpty |-> seen = <<>>,
   granted |-> page.permission = "granted",
   notified |-> notified]

\* the response of poll i arrives: poll() from setList(data) to its end,
\* or to await Notification.requestPermission()
PollDeliver(i) ==
  /\ i \in 1..Len(page.polls)
  /\ page.polls[i].phase = "served"
  /\ UNCHANGED ServerVars
  /\ LET data == page.polls[i].data
         ids == idsOf(data)
         seen == page.localStorage
         shown == [page EXCEPT !.list = data, !.listFrom = i,
                               !.sinceChange = Min2(@ + 1, MaxPolls)]
     IN IF Len(data) = 0
        THEN page' = [shown EXCEPT !.polls[i].phase = "done",
                                   !.last = PollOutcome(i, data, seen, FALSE)]
        ELSE IF Len(seen) = 0
        THEN page' = [shown EXCEPT !.polls[i].phase = "done",
                                   !.localStorage = writeSeenIds(ids),
                                   !.last = PollOutcome(i, data, seen, FALSE)]
        ELSE IF \A k \in 1..Len(ids) : ids[k] \in Range(seen)
        THEN page' = [shown EXCEPT !.polls[i].phase = "done",
                                   !.localStorage = writeSeenIds(seen \o ids),
                                   !.last = PollOutcome(i, data, seen, FALSE)]
        ELSE IF page.suppressNotifyRef
        THEN page' = [shown EXCEPT !.polls[i].phase = "done",
                                   !.localStorage = writeSeenIds(seen \o ids),
                                   !.suppressNotifyRef = FALSE,
                                   !.last = PollOutcome(i, data, seen, FALSE)]
        ELSE IF page.permission = "default"
        THEN page' = [shown EXCEPT !.polls[i].phase = "awaiting",
                                   !.polls[i].seen = seen,
                                   !.last = PollOutcome(i, data, seen, FALSE)]
        ELSE LET target == firstNew(data, seen).id
                 desktop == IF page.permission = "granted"
                            THEN <<[id |-> target, kind |-> "desktop"]>>
                            ELSE <<>>
                 push == IF page.bark
                         THEN <<[id |-> target, kind |-> "push"]>> ELSE <<>>
             IN page' = [shown EXCEPT !.polls[i].phase = "done",
                                      !.notified = @ \o desktop \o push,
                                      !.localStorage = writeSeenIds(seen \o ids),
                                      !.last = PollOutcome(i, data, seen,
                                                         desktop # <<>>)]

\* Notification.requestPermission() resolves: the rest of poll(), with the
\* seen set read before the await
PollResume(i, answer) ==
  /\ i \in 1..Len(page.polls)
  /\ page.polls[i].phase = "awaiting"
  /\ UNCHANGED ServerVars
  /\ LET data == page.polls[i].data
         seen == page.polls[i].seen
         push == IF page.bark
                 THEN <<[id |-> firstNew(data, seen).id, kind |-> "push"]>>
                 ELSE <<>>
     IN page' = [page EXCEPT !.polls[i].phase = "done",
                             !.polls[i].seen = <<>>,
                             !.permission = answer,
                             !.notified = @ \o push,
                             !.localStorage = writeSeenIds(seen \o idsOf(data))]

----------------------------------------------------------------------------
(* src/lib/db.ts, one remote call at a time *)

\* POST /api/deploy up to the first await of addDeployRecord
AddBegin(body) ==
  /\ impl = "db" /\ redis
  /\ calls.add.record = NoRecord
  /\ firstMissing(body) = 0
  /\ ~(Truthy(body.deployedAt) /\ IsNaNDate(body.deployedAt))
  /\ nextId < MaxCreates
  /\ nextId' = nextId + 1
  /\ LET payload == payloadOf(body)
     IN calls' = [calls EXCEPT !.add =
                    [record |-> MakeRecord(randomUUID(nextId + 1), payload,
                                           resolveDeployedAt(payload.deployedAt)),
                     body |-> body, pc |-> 0]]
  /\ UNCHANGED <<Config, page, now, ticks, rdb, fs, memory, created, sinceClear, resp>>

\* the next remote write of the addDeployRecord in progress; after the
\* last one the call returns and POST answers
AddWrite ==
  /\ calls.add.record # NoRecord
  /\ rdb' = WriteStep(rdb, calls.add.pc + 1, calls.add.record)
  /\ IF calls.add.pc + 1 < WriteSteps
     THEN /\ calls' = [calls EXCEPT !.add.pc = @ + 1]
          /\ UNCHANGED <<created, sinceClear, resp>>
     ELSE /\ calls' = [calls EXCEPT !.add = NoCalls.add]
          /\ created' = created \cup {calls.add.record}
          /\ sinceClear' = sinceClear \cup {calls.add.record}
          /\ resp' = [Response("POST", 200) EXCEPT
                        !.data = <<calls.add.record>>, !.body = calls.add.body]
  /\ UNCHANGED <<Config, page, now, ticks, fs, memory, nextId>>

\* POST /api/clean: clearAllData up to the answer of redis.keys("*")
ClearKeys ==
  /\ impl = "db" /\ redis
  /\ calls.clear.pc = 0
  /\ LET keys == redisKeysOf(rdb)
     IN IF keys = {}
        THEN /\ resp' = [Response("Clean", 200) EXCEPT !.mode = "redis"]
             /\ sinceClear' = {}
             /\ UNCHANGED calls
        ELSE /\ calls' = [calls EXCEPT !.clear = [pc |-> 1, keys |-> keys]]
             /\ UNCHANGED <<resp, sinceClear>>
  /\ UNCHANGED <<Config, page, now, ticks, rdb, fs, memory, nextId, created>>

\* redis.del(...keys) and the answer of POST /api/clean
ClearDel ==
  /\ calls.clear.pc = 1
  /\ rdb' = redisDel(rdb, calls.clear.keys)
  /\ resp' = [Response("Clean", 200) EXCEPT
                !.cleared = Cardinality(calls.clear.keys \cap redisKeysOf(rdb)),
                !.mode = "redis"]
  /\ sinceClear' = {}
  /\ calls' = [calls EXCEPT !.clear = NoCalls.clear]
  /\ UNCHANGED <<Config, page, now, ticks, fs, memory, nextId, created>>

Next ==
  \/ \E body \in FullBodies : \E done \in DoneFor(body) : POST(body, done)
  \/ \E q \in Queries, ok \in RemoteOutcomes : GET(q, ok)
  \/ \E ok \in RemoteOutcomes : GETProjects(ok)
  \/ \E ok \in RemoteOutcomes : Clean(ok)
  \/ \E d \in TickSteps : Tick(d)

Spec == Init /\ [][Next]_vars

\* the requests with bodies that leave required fields out, against a
\* remote store and against a remote store with a writable file
NextPost ==
  \/ \E body \in Bodies : \E done \in DoneFor(body) : POST(body, done)
  \/ \E ok \in RemoteOutcomes : Clean(ok)

InitPost == Init /\ (redis \/ impl = "hybrid")

SpecPost == InitPost /\ [][NextPost]_vars

SpecDb == InitDb /\ [][Next]_vars

SpecHybrid == InitHybrid /\ [][Next]_vars

\* src/lib/db.ts with the remote store configured
InitRemote == InitDb /\ redis

\* the values of type DeployStatus (part_001:1)
DeployStatus == {"success", "failed", "running", "canceled"}

\* requests whose status is, and is not, a DeployStatus
StatusBodies ==
  {[FullBody("svc-a", AbsentAt) EXCEPT !.status = st] :
     st \in {"success", "failed", "rolled-back"}}

NextStatus ==
  \/ \E body \in StatusBodies : POST(body, WriteSteps)
  \/ \E q \in Queries, ok \in RemoteOutcomes : GET(q, ok)
  \/ \E ok \in RemoteOutcomes : Clean(ok)
  \/ \E d \in TickSteps : Tick(d)

\* part_002 without remote store: records live in memoryList
InitMemory ==
  /\ impl = "memory"
  /\ redis = FALSE
  /\ REDIS_ONLY = FALSE
  /\ IS_VERCEL = FALSE
  /\ writable = FALSE
  /\ fs = [tmp |-> NoFile, cwd |-> NoFile]
  /\ InitCommon

\* part_002 exports no clearAllData
NextMemory ==
  \/ \E body \in FullBodies : POST(body, WriteSteps)
  \/ \E q \in Queries : GET(q, TRUE)
  \/ GETProjects(TRUE)
  \/ \E d \in TickSteps : Tick(d)

SpecMemory == InitMemory /\ [][NextMemory]_vars

\* creates whose remote writes stop after any number of steps
WriteBodies == {FullBody("svc-a", AbsentAt), FullBody("svc-b", FutureAt)}

NextWrite ==
  \/ \E body \in WriteBodies, done \in 0..WriteSteps : POST(body, done)
  \/ \E q \in Queries : GET(q, TRUE)
  \/ GETProjects(TRUE)
  \/ Clean(TRUE)
  \/ \E d \in TickSteps : Tick(d)

SpecWrite == InitRemote /\ [][NextWrite]_vars

\* remote store plus file, started in a working directory that cannot be
\* written (the repository's data file is deployed with the code)
InitReadOnlyDir ==
  /\ impl \in {"hybrid", "filefirst"}
  /\ redis = TRUE
  /\ REDIS_ONLY = FALSE
  /\ IS_VERCEL = FALSE
  /\ writable = FALSE
  /\ fs = [tmp |-> NoFile, cwd |-> RepoData]
  /\ InitCommon

NextReadOnlyDir ==
  \/ \E body \in FullBodies : POST(body, WriteSteps)
  \/ \E q \in Queries, ok \in BOOLEAN : GET(q, ok)
  \/ \E ok \in BOOLEAN : GETProjects(ok)
  \/ \E d \in TickSteps : Tick(d)

SpecReadOnlyDir == InitReadOnlyDir /\ [][NextReadOnlyDir]_vars

\* limit parameters: absent, not a number, below 1, inside and above [1, 50]
LimitQueries ==
  {Query(l, <<>>, NoCsv) :
     l \in {Undefined, NotANumber, Num(0 - 5), Num(0), Num(1), Num(50), Num(100)}}

NextLimit ==
  \/ \E body \in FullBodies : POST(body, WriteSteps)
  \/ \E q \in LimitQueries : GET(q, TRUE)
  \/ \E d \in TickSteps : Tick(d)

SpecLimit == InitRemote /\ [][NextLimit]_vars

SpecStatus == InitRemote /\ [][NextStatus]_vars

\* a remote store that holds entries no create of this program wrote: an
\* index member without blob, a blob that is no JSON, a blob without
\* deployedAt, list entries that are no JSON or lack an id, and an older
\* version of an indexed record in the legacy list
LegacyRecord(n, p, title) ==
  [MakeRecord(randomUUID(n), payloadOf(FullBody(p, AbsentAt)), toISOString(Now0 - 1))
     EXCEPT !.title = title]
TextValue == [k |-> "text"]
Blob(val) == [val |-> val, exp |-> Now0 + THIRTY_DAYS_MS]

CorruptDb ==
  [kv |-> (randomUUID(7) :> Blob(TextValue))
          @@ (randomUUID(8) :> Blob(stringify([LegacyRecord(8, "svc-b", "deploy") EXCEPT !.deployedAt = AbsentAt])))
          @@ (randomUUID(9) :> Blob(stringify(LegacyRecord(9, "svc-b", "deploy")))),
   z |-> [id \in {randomUUID(n) : n \in 6..9} |-> Now0 - 1],
   list |-> <<TextValue,
              stringify([LegacyRecord(4, "svc-b", "deploy") EXCEPT !.id = <<>>]),
              stringify(LegacyRecord(9, "svc-b", "draft")),
              stringify(LegacyRecord(5, "svc-a", "deploy"))>>,
   projects |-> {}]

InitCorrupt ==
  /\ impl = "db"
  /\ redis = TRUE
  /\ REDIS_ONLY = TRUE
  /\ IS_VERCEL = FALSE
  /\ writable = FALSE
  /\ fs = [tmp |-> NoFile, cwd |-> NoFile]
  /\ now = Now0
  /\ ticks = 0
  /\ rdb = CorruptDb
  /\ nextId = 0
  /\ created = {}
  /\ sinceClear = {}
  /\ memory = EmptyMemory
  /\ resp = [Response("none", 0) EXCEPT !.at = Now0]
  /\ page = ClosedPage
  /\ calls = NoCalls

NextCorrupt ==
  \/ \E body \in WriteBodies : POST(body, WriteSteps)
  \/ \E q \in Queries : GET(q, TRUE)
  \/ GETProjects(TRUE)
  \/ Clean(TRUE)
  \/ \E d \in TickSteps : Tick(d)

SpecCorrupt == InitCorrupt /\ [][NextCorrupt]_vars

\* the page open in a browser, against src/lib/db.ts with a remote store
Browsers == {Browser("granted", FALSE), Browser("default", TRUE)}
SeenSeeds == {<<>>, OldIds(1)}
PageBodies == {FullBody("svc-a", AbsentAt), FullBody("svc-b", AbsentAt)}
Segs == {<<>>, <<"svc-b">>}

InitPage ==
  /\ impl = "db"
  /\ redis = TRUE
  /\ REDIS_ONLY = TRUE
  /\ IS_VERCEL = FALSE
  /\ writable = FALSE
  /\ fs = [tmp |-> NoFile, cwd |-> NoFile]
  /\ now = Now0
  /\ ticks = 0
  /\ rdb = EmptyDb
  /\ nextId = 0
  /\ created = {}
  /\ sinceClear = {}
  /\ memory = EmptyMemory
  /\ resp = [Response("none", 0) EXCEPT !.at = Now0]
  /\ calls = NoCalls
  /\ \E b \in Browsers, seen \in SeenSeeds :
       page = [ClosedPage EXCEPT !.permission = b.permission, !.bark = b.bark,
                                 !.localStorage = seen]

NextPage ==
  \/ \E body \in PageBodies : POST(body, WriteSteps)
  \/ PollStart
  \/ \E value \in Segs : handleSegChange(value)
  \/ \E i \in 1..MaxPolls, ok \in BOOLEAN : PollServe(i, ok)
  \/ \E i \in 1..MaxPolls : PollDeliver(i)
  \/ \E i \in 1..MaxPolls, answer \in {"granted", "denied"} : PollResume(i, answer)

SpecPage == InitPage /\ [][NextPage]_vars

\* a browser whose seen-id cache is full: MAX_SEEN_CACHE ids of earlier
\* records, permission granted
InitPageCache ==
  /\ impl = "db"
  /\ redis = TRUE
  /\ REDIS_ONLY = TRUE
  /\ IS_VERCEL = FALSE
  /\ writable = FALSE
  /\ fs = [tmp |-> NoFile, cwd |-> NoFile]
  /\ now = Now0
  /\ ticks = 0
  /\ rdb = EmptyDb
  /\ nextId = 0
  /\ created = {}
  /\ sinceClear = {}
  /\ memory = EmptyMemory
  /\ resp = [Response("none", 0) EXCEPT !.at = Now0]
  /\ page = [ClosedPage EXCEPT !.localStorage = OldIds(MAX_SEEN_CACHE)]
  /\ calls = NoCalls

NextPageCache ==
  \/ \E body \in PageBodies : POST(body, WriteSteps)
  \/ PollStart
  \/ \E i \in 1..MaxPolls : PollServe(i, TRUE)
  \/ \E i \in 1..MaxPolls : PollDeliver(i)

SpecPageCache == InitPageCache /\ [][NextPageCache]_vars

\* src/lib/db.ts with a create written one remote call at a time and reads
\* between the calls; the clock, counted in days, stands still meanwhile
NextSteps ==
  \/ \E body \in WriteBodies : AddBegin(body)
  \/ AddWrite
  \/ \E q \in Queries : GET(q, TRUE)
  \/ GETProjects(TRUE)

SpecSteps == InitRemote /\ [][NextSteps]_vars

\* the same with clearAllData running between the writes of creates
NextRace ==
  \/ \E body \in PageBodies : AddBegin(body)
  \/ AddWrite
  \/ ClearKeys
  \/ ClearDel
  \/ \E q \in Queries : GET(q, TRUE)
  \/ GETProjects(TRUE)

SpecRace == InitRemote /\ [][NextRace]_vars

----------------------------------------------------------------------------
(* Properties.  Vocabulary shared by the properties below. *)

\* the instant of r lies within the retention window of a read at time t
WithinWindowAt(r, t) ==
  ~IsNaNDate(r.deployedAt) /\ getTime(r.deployedAt) >= t - THIRTY_DAYS_MS

\* r can be read from the remote store at time t: from the legacy list, or
\* from the time index with its blob not yet expired
Readable(r, t) ==
  \/ stringify(r) \in Range(rdb.list)
  \/ /\ r.id \in DOMAIN rdb.z
     /\ r.id \in DOMAIN rdb.kv
     /\ t < rdb.kv[r.id].exp

\* the created records a read at time t can find inside the window
Candidates(t) == {s \in created : Readable(s, t) /\ WithinWindowAt(s, t)}

\* the candidates other than r that the comparator does not put after r
NotAfter(r, t) ==
  {s \in Candidates(t) \ {r} : ~StringLess(s.deployedAt, r.deployedAt)}

\* r is held by a file of the hybrid module
InFile(r) == r \in Range(fs["tmp"].records) \/ r \in Range(fs["cwd"].records)

\* a successful read without project filter whose remote calls answered
PlainRead ==
  resp.op = "GET" /\ resp.status = 200 /\ resp.ok /\ resp.projects = <<>>

\* C1 (as stated): every created record that is still stored and inside the
\* retention window is contained in a later getLatestDeployRecords(limit)
\* without project filter, for any limit >= 1, whatever else is stored.
C1_RoundTripAnyLimit ==
  PlainRead /\ resp.limit >= 1 =>
    \A r \in Candidates(resp.at) : r \in Range(resp.data)

\* C1 (amended): a created record that is still stored and inside the
\* retention window is contained in a later read without project filter
\* whose remote calls answered, provided fewer than 'limit' other such
\* records have a deployedAt string that is not smaller than its own.
C1_RoundTripWithinLimit ==
  PlainRead /\ resp.limit >= 1 =>
    \A r \in Candidates(resp.at) :
      Cardinality(NotAfter(r, resp.at)) < resp.limit => r \in Range(resp.data)

\* a read with limit 1 over two stored records returns the one that sorts first
C1_Witness ==
  /\ PlainRead /\ resp.limit = 1
  /\ \E r \in Candidates(resp.at) :
       /\ Candidates(resp.at) \ {r} # {}
       /\ NotAfter(r, resp.at) = {}
       /\ resp.data = <<r>>

\* C2: a POST whose body lacks a required field answers 400 "missing field"
\* naming a field the body lacks, and leaves the remote store and the files
\* as they were.
C2_MissingFieldRejected ==
  [][(resp'.op = "POST" /\ \E f \in RequiredSet : resp'.body[f] = NoValue) =>
       /\ resp'.status = 400
       /\ resp'.error = "missing field"
       /\ resp'.field \in RequiredSet
       /\ resp'.body[resp'.field] = NoValue
       /\ rdb' = rdb
       /\ fs' = fs]_vars

\* a body without status is rejected while records are stored
C2_Witness ==
  /\ resp.op = "POST" /\ resp.status = 400 /\ resp.field = "status"
  /\ resp.body["status"] = NoValue
  /\ created # {}
  /\ (rdb.list # <<>> \/ fs["cwd"].records # <<>>)

\* C3: every record a read returns has a deployedAt instant not earlier
\* than 30 days before the time of the read, for every limit, every project
\* filter and every tier (time index, legacy list, file) it was read from.
C3_Retention ==
  resp.op = "GET" =>
    \A i \in 1..Len(resp.data) : WithinWindowAt(resp.data[i], resp.at)

\* a read that returns a record while an older record, outside the window,
\* is still held by the legacy list or by a file
C3_Witness ==
  /\ resp.op = "GET" /\ resp.data # <<>>
  /\ \E r \in created :
       /\ ~WithinWindowAt(r, resp.at)
       /\ (stringify(r) \in Range(rdb.list) \/ InFile(r))

\* C4: with a non-empty project list, every record a read returns has a
\* projectName equal to a member of the list.
C4_ProjectFilter ==
  resp.op = "GET" /\ resp.projects # <<>> =>
    \A i \in 1..Len(resp.data) :
      resp.data[i].projectName \in Range(resp.projects)

\* a read filtered on svc-b returns records while an svc-a record inside
\* the window is stored
C4_Witness ==
  /\ resp.op = "GET" /\ resp.projects = <<"svc-b">> /\ resp.data # <<>>
  /\ \E r \in created :
       /\ r.projectName = "svc-a"
       /\ WithinWindowAt(r, resp.at)
       /\ (Readable(r, resp.at) \/ InFile(r))

\* C5: the first read after a successful clearAllData, with no create in
\* between, returns no record and no project name, in every deployment.
C5_ClearThenEmpty ==
  [][(/\ resp.op = "Clean" /\ resp.status = 200
      /\ resp'.op \in {"GET", "GETProjects"} /\ resp'.status = 200 /\ resp'.ok) =>
       resp'.data = <<>> /\ resp'.names = <<>>]_vars

\* the required fields of a request body all carry text
Complete(body) == \A f \in RequiredSet : body[f] \notin {NoValue, ""}

\* C6: a successful create returns a record whose id is not empty and
\* differs from the id of every other record created so far (there are as
\* many distinct ids as successful creates), and whose deployedAt is the
\* time of the call when the request carries no deployedAt.
C6_FreshIdAndCurrentTime ==
  /\ Cardinality({r.id : r \in created}) = nextId
  /\ resp.op = "POST" /\ resp.status = 200 =>
       LET r == resp.data[1]
       IN /\ r.id # <<>>
          /\ \A s \in created \ {r} : s.id # r.id
          /\ resp.body.deployedAt = AbsentAt =>
               r.deployedAt = toISOString(resp.at)

\* a second successful create, without deployedAt
C6_Witness ==
  /\ resp.op = "POST" /\ resp.status = 200
  /\ resp.body.deployedAt = AbsentAt
  /\ Cardinality(created) >= 2

\* the step is a read with limit 1 and no project filter that follows a
\* successful create without deployedAt, with no other request in between
ReadAfterCreate ==
  /\ resp.op = "POST" /\ resp.status = 200 /\ ~Truthy(resp.body.deployedAt)
  /\ resp'.op = "GET" /\ resp'.status = 200 /\ resp'.ok
  /\ resp'.limit = 1 /\ resp'.projects = <<>>
  /\ WithinWindowAt(resp.data[1], resp'.at)

\* C7 (as stated): after a successful create without deployedAt, the next
\* read with limit 1 returns exactly the created record, whatever was
\* stored before (here: whatever was stored with another deployedAt).
C7_LatestFirstAlways ==
  [][(/\ ReadAfterCreate
      /\ \A s \in created \ {resp.data[1]} :
           s.deployedAt # resp.data[1].deployedAt) =>
       resp'.data = resp.data]_vars

\* C7 (amended): after a successful create without deployedAt, the next
\* read with limit 1 returns exactly the created record while it is inside
\* the window, provided every other stored record inside the window has a
\* deployedAt string strictly smaller than its own.
C7_LatestFirstWhenNewest ==
  [][ReadAfterCreate /\ NotAfter(resp.data[1], now) = {} =>
       resp'.data = resp.data]_vars

\* a read with limit 1 returns the record created last, created at the time
\* of the read, while an older record inside the window is stored
C7_Witness ==
  /\ PlainRead /\ resp.limit = 1 /\ Len(resp.data) = 1
  /\ resp.data[1].id = randomUUID(nextId)
  /\ resp.data[1].deployedAt = toISOString(resp.at)
  /\ NotAfter(resp.data[1], resp.at) = {}
  /\ Candidates(resp.at) \ {resp.data[1]} # {}

\* C8: the list a read returns is newest first: of two adjacent elements
\* the earlier one has the later or the same deployedAt instant.
C8_NewestFirst ==
  resp.op = "GET" =>
    \A i \in 1..(Len(resp.data) - 1) :
      getTime(resp.data[i].deployedAt) >= getTime(resp.data[i + 1].deployedAt)

\* C9: a create request with all required fields whose deployedAt is
\* absent, blank or unparsable succeeds, against a configured store, with
\* deployedAt set to the time of the call.
C9_UnparsableBecomesNow ==
  (/\ resp.op = "POST" /\ Complete(resp.body) /\ (redis \/ impl = "hybrid")
   /\ IsNaNDate(resp.body.deployedAt)) =>
     /\ resp.status = 200
     /\ resp.data[1].deployedAt = toISOString(resp.at)

StoredRecords ==
  {rdb.kv[id].val.r : id \in DOMAIN rdb.kv}
  \cup {rdb.list[i].r : i \in 1..Len(rdb.list)}
  \cup Range(fs["tmp"].records) \cup Range(fs["cwd"].records)
  \cup Range(memory.list)

\* C11: every stored record and every record a read returns has a status
\* that is one of success, failed, running, canceled; a create request with
\* another status stores nothing.
C11_StatusIsDeployStatus ==
  /\ \A r \in StoredRecords : r.status \in DeployStatus
  /\ resp.op = "GET" => \A i \in 1..Len(resp.data) : resp.data[i].status \in DeployStatus
  /\ resp.op = "POST" /\ resp.body.status \notin DeployStatus => resp.status # 200

\* C12: every stored record (record blob, list entry, memory entry, file
\* entry) has a deployedAt that parses to a valid instant, also when the
\* request carried no deployedAt.
C12_StoredDeployedAtValid ==
  \A r \in StoredRecords : ~IsNaNDate(r.deployedAt)

\* the supplied limit clamped into [1, 50], 20 when absent or not a number
ClampedLimit(param) ==
  IF param.k # "num" THEN 20
  ELSE IF param.n < 1 THEN 1
  ELSE IF param.n > 50 THEN 50
  ELSE param.n

\* C13: GET /api/deploy reads with the supplied limit clamped into [1, 50],
\* with 20 when the limit is absent or not a number, and never returns more
\* records than that.
C13_LimitClamped ==
  resp.op = "GET" /\ resp.status = 200 =>
    /\ resp.limit = ClampedLimit(resp.param)
    /\ Len(resp.data) <= ClampedLimit(resp.param)

C16_RemoteFailureIs500 ==
  impl = "db" /\ resp.op = "POST" /\ ~resp.ok => resp.status = 500

\* the last request was a read whose remote calls failed
FailedRemoteRead ==
  redis /\ resp.op = "GET" /\ ~resp.ok /\ resp.at = now

\* C15: with a remote store configured, a read whose remote calls fail is
\* answered without an error: it returns what the file tier holds, and the
\* empty list where there is no file tier.
C15_ReadNeverRaises ==
  FailedRemoteRead =>
    /\ resp.status = 200
    /\ resp.data = IF impl = "db" \/ REDIS_ONLY THEN <<>>
                   ELSE fileGetLatest(resp.limit, resp.projects)

C15_Witness ==
  /\ FailedRemoteRead
  /\ impl = "hybrid" /\ ~REDIS_ONLY
  /\ DOMAIN rdb.kv # {}
  /\ resp.status = 200 /\ Len(resp.data) > 0

\* C17: with the remote store only and none configured, no operation
\* reports success, and POST /api/clean answers 500.
C17_NotConfiguredFails ==
  impl = "db" /\ ~redis /\ resp.op # "none" =>
    /\ resp.status # 200
    /\ resp.op = "Clean" => resp.status = 500

\* C18: with a remote store and a file, a create whose file write fails
\* still succeeds: it returns the record and the remote store holds it.
C18_FileFailureDoesNotFailCreate ==
  /\ redis /\ ~REDIS_ONLY /\ ~writable
  /\ resp.op = "POST" /\ firstMissing(resp.body) = 0
  /\ ~(Truthy(resp.body.deployedAt) /\ IsNaNDate(resp.body.deployedAt))
  =>
  /\ resp.status = 200
  /\ Len(resp.data) = 1
  /\ resp.data[1].id \in DOMAIN rdb.kv

\* C19: a record leaves the results only by aging out of the window or by
\* clearAllData: a read without filter and with the default limit, its
\* remote calls answering, returns every record created since the last
\* clear whose deployedAt is still inside the window.
C19_LeavesOnlyByAgingOrClear ==
  PlainRead /\ resp.at = now /\ resp.limit > MaxCreates =>
    \A r \in sinceClear : WithinWindowAt(r, now) => r \in Range(resp.data)

\* the records the time index yields: index members whose blob is readable
IndexRecords ==
  {r \in created \cup {SeedRecord} :
     /\ r.id \in DOMAIN rdb.z
     /\ r.id \in DOMAIN rdb.kv
     /\ now < rdb.kv[r.id].exp
     /\ rdb.kv[r.id].val = stringify(r)}

\* the records of the legacy list
ListRecords == {r \in created \cup {SeedRecord} : stringify(r) \in Range(rdb.list)}

\* the records of the file tier
FileRecords == Range(loadState.records)

\* the members of S inside the window that pass the request's filter
Passing(S) ==
  {r \in S : /\ WithinWindowAt(r, now)
             /\ resp.projects # <<>> => r.projectName \in Range(resp.projects)}

\* the tier the fallback order selects for the last read
SelectedTier ==
  LET remote == IF IndexRecords # {} THEN Passing(IndexRecords)
                ELSE Passing(ListRecords)
  IN IF redis /\ resp.ok /\ remote # {} THEN remote
     ELSE IF REDIS_ONLY THEN {}
     ELSE Passing(FileRecords)

HybridRead ==
  impl = "hybrid" /\ resp.op = "GET" /\ resp.status = 200 /\ resp.at = now

\* C20: in the remote-plus-file module a read takes its records from the
\* time index when the index yields a readable record, from the legacy
\* list only when the index yields none, from the file only when the remote
\* read failed or left nothing after the window and project filters, and
\* never from the file in remote-only mode.
C20_FallbackOrder ==
  HybridRead =>
    /\ Range(resp.data) \subseteq SelectedTier
    /\ Len(resp.data) = Min2(resp.limit, Cardinality(SelectedTier))

\* the index yields a record while the legacy list holds another record
\* inside the window, which the read does not return
C20_Witness ==
  /\ HybridRead /\ redis /\ resp.ok /\ resp.projects = <<>>
  /\ IndexRecords # {}
  /\ Passing(ListRecords) \ IndexRecords # {}
  /\ Range(resp.data) = Passing(IndexRecords)
  /\ Len(resp.data) < resp.limit

\* a read of src/lib/db.ts whose remote calls answered
DbRead ==
  impl = "db" /\ resp.op = "GET" /\ resp.status = 200 /\ resp.ok /\ resp.at = now

\* C21: the list getLatestDeployRecords returns never holds two records
\* with the same id, and an id present both in the time index (with a usable
\* blob) and in the legacy list is returned in the version of its blob.
C21_DedupOnMerge ==
  DbRead =>
    /\ \A i, j \in 1..Len(resp.data) : i # j => resp.data[i].id # resp.data[j].id
    /\ \A i \in 1..Len(resp.data) :
         LET id == resp.data[i].id
         IN id \in DOMAIN rdb.z /\ coerceRecord(redisGet(rdb, id)) # <<>>
            => resp.data[i] = redisGet(rdb, id).r

\* the read returns the blob's version of a record whose legacy list entry
\* differs
C21_Witness ==
  /\ DbRead
  /\ stringify(LegacyRecord(9, "svc-b", "draft")) \in Range(rdb.list)
  /\ stringify(LegacyRecord(5, "svc-a", "deploy")) \in Range(rdb.list)
  /\ \E i \in 1..Len(resp.data) : resp.data[i] = LegacyRecord(9, "svc-b", "deploy")
  /\ \E i \in 1..Len(resp.data) : resp.data[i] = LegacyRecord(5, "svc-a", "deploy")

\* C22: a create removes from the time index only entries whose timestamp
\* is more than 30 days before the current time, whatever the deployedAt of
\* the record being created.
C22_PruneOnlyExpired ==
  [][resp'.op = "POST" =>
       \A id \in DOMAIN rdb.z :
         rdb.z[id] >= now - THIRTY_DAYS_MS => id \in DOMAIN rdb'.z]_vars

\* a stored value that is the JSON of a record with id and deployedAt
UsableValue(v) == v.k = "json" /\ v.r.id # <<>> /\ Truthy(v.r.deployedAt)

\* the usable records the time index leads to, and those of the legacy list
UsableBlobs ==
  {rdb.kv[id].val.r : id \in {i \in DOMAIN rdb.z \cap DOMAIN rdb.kv :
                                now < rdb.kv[i].exp /\ UsableValue(rdb.kv[i].val)}}
UsableList == {v.r : v \in {w \in Range(rdb.list) : UsableValue(w)}}

\* the stored values no record can be made of
Unusable ==
  {v \in Range(rdb.list) : ~UsableValue(v)}
  \cup {rdb.kv[id].val : id \in {i \in DOMAIN rdb.kv : ~UsableValue(rdb.kv[i].val)}}

\* what a read has to return: the usable records inside the window that
\* pass the request's filter, the list's version only for ids without blob
ExpectedOfStore ==
  Passing(UsableBlobs
          \cup {l \in UsableList : \A b \in UsableBlobs : b.id # l.id})

\* C23: a blob or list entry that is missing, is no JSON, or lacks id or
\* deployedAt is left out of the read and of the project inference; the
\* read still succeeds and returns the other records.
C23_CorruptEntriesDropped ==
  /\ DbRead =>
       /\ Range(resp.data) \subseteq ExpectedOfStore
       /\ Len(resp.data) = Min2(resp.limit, Cardinality(ExpectedOfStore))
  /\ impl = "db" /\ redis /\ resp.op = "GETProjects" /\ resp.ok /\ resp.at = now
     /\ rdb.projects = {} =>
       /\ resp.status = 200
       /\ resp.names = sortNames({r.projectName : r \in UsableList})

\* a read over a store holding unusable entries returns the usable records
C23_Witness ==
  /\ DbRead /\ resp.projects = <<>>
  /\ Cardinality(Unusable) >= 3
  /\ DOMAIN rdb.z \ DOMAIN rdb.kv # {}
  /\ Len(resp.data) >= 2
  /\ Len(resp.data) < resp.limit

\* C24: with the project set empty, getAllProjects lists the project of
\* every record getLatestDeployRecords returns, in every reachable state,
\* the states left between the writes of an interrupted create included.
C24_RegistryReconstructible ==
  redis /\ rdb.projects = {} =>
    \A r \in Range(getLatestDeployRecords(50, <<>>, TRUE)) :
      r.projectName \in Range(getAllProjects(TRUE))

\* poll i of the page has handed its response to setList
Delivered(i) == page.polls[i].phase \in {"awaiting", "done"}

\* poll n was started by the timer after every other poll, and all the
\* others have run to their end: it is no poll a filter change started
LaterPoll(n) ==
  /\ n = Len(page.polls)
  /\ page.polls[n].by = "timer"
  /\ \A j \in 1..(n - 1) : page.polls[j].phase = "done"

\* C29: the suppression set by a filter change covers only the first poll
\* completed after the change: a later poll that finds an id missing from
\* a non-empty seen cache, with permission granted, raises a notification.
C29_SuppressionOnlyFirstPoll ==
  /\ page.last.nth >= 2
  /\ page.last.fresh /\ ~page.last.seenEmpty /\ page.last.granted
  /\ LaterPoll(page.last.n)
  => page.last.notified

\* C30: the list shown comes from the most recently started poll among
\* those that have answered; an earlier poll's response never replaces it.
C30_LatestPollShown ==
  \A i \in 1..Len(page.polls) :
    Delivered(i) /\ (\A j \in 1..Len(page.polls) : j > i => ~Delivered(j))
    => page.list = page.polls[i].data

\* C25: a record id causes at most one desktop and one push notification
\* per browser, however many ids the seen-id cache already holds.
C25_NotifiedOnce ==
  \A i, j \in 1..Len(page.notified) : i # j => page.notified[i] # page.notified[j]

PartsStored(r) ==
  (IF r.id \in DOMAIN rdb.kv THEN {"blob"} ELSE {})
  \cup (IF r.id \in DOMAIN rdb.z THEN {"index"} ELSE {})
  \cup (IF stringify(r) \in Range(rdb.list) THEN {"list"} ELSE {})
  \cup (IF r.projectName \in rdb.projects THEN {"project"} ELSE {})

\* C27: once a clearAllData and a create that ran interleaved have both
\* finished, the created record is completely present or completely
\* absent, and the project set holds no name without a stored record.
C27_ClearVersusCreate ==
  calls = NoCalls =>
    /\ \A r \in created :
         \/ PartsStored(r) = {"blob", "index", "list", "project"}
         \/ PartsStored(r) \subseteq
              (IF \E s \in created \ {r} : s.projectName = r.projectName
               THEN {"project"} ELSE {})
    /\ \A name \in rdb.projects :
         \E r \in created : r.projectName = name /\ r.id \in DOMAIN rdb.kv

\* C28: a create that ended with an error leaves nothing visible: reads
\* return only records of creates that succeeded, and the project list
\* holds only their names.
C28_FailedCreateInvisible ==
  impl = "db" /\ redis =>
    /\ \A r \in Range(getLatestDeployRecords(50, <<>>, TRUE)) : r \in created
    /\ \A name \in Range(getAllProjects(TRUE)) :
         \E r \in created : r.projectName = name

====
